---- MODULE Spec2Model ----
(***************************************************************************)
(* Announcements router of the High School Management System API           *)
(* (src/backend/routers/announcements.py).                                 *)
(*                                                                         *)
(* Strings that the code inspects character by character (dates, ids) are  *)
(* sequences of one-character strings; usernames and messages, which the   *)
(* code only copies and compares for equality, are plain strings.          *)
(* A MongoDB document is a function from its field names to their values;  *)
(* a field that is absent is not in the document's DOMAIN.                 *)
(* A collection is the sequence of its documents in natural (insertion)    *)
(* order.                                                                  *)
(***************************************************************************)
EXTENDS Integers, Sequences, FiniteSets, TLC

VARIABLES
    announcements_collection,  \* the Announcement Store
    next_oid,                  \* the ObjectId the store assigns next
    today,                     \* the server's calendar date <<y, m, d>>
    resp,                      \* the response of the last request that ended
    pc,                        \* per worker thread: where its update is
    req,                       \* per worker thread: locals of its update
    nreq                       \* requests started so far

vars == <<announcements_collection, next_oid, today, resp, pc, req, nreq>>

(***************************** bounds **************************************)
\* Documents ever inserted in one run.
MaxRecords == 2
\* Worker threads that serve update requests concurrently.
MaxWorkers == 2
\* Requests started in one run.
MaxRequests == 3

\* The first ObjectId the store hands out (0x0a, so that its hex form has a
\* letter and upper and lower case differ).
FirstOid == 10
\* Length of the hex form of an ObjectId.
OidHexLen == 24

(***************************** characters **********************************)
Digits == <<"0", "1", "2", "3", "4", "5", "6", "7", "8", "9">>
HexLower == Digits \o <<"a", "b", "c", "d", "e", "f">>
HexUpper == Digits \o <<"A", "B", "C", "D", "E", "F">>

DigitSet == {"0", "1", "2", "3", "4", "5", "6", "7", "8", "9"}
HexSet == DigitSet \cup {"a", "b", "c", "d", "e", "f", "A", "B", "C", "D", "E", "F"}

IsDigit(c) == c \in DigitSet

DigitVal(c) == CHOOSE n \in 0..9 : Digits[n + 1] = c

\* Code point of a character (the ones the model's strings are made of).
Ord(c) ==
    CASE c = " " -> 32
      [] c = "-" -> 45
      [] c = "/" -> 47
      [] IsDigit(c) -> 48 + DigitVal(c)

\* s[i], or the empty string past the end of s.
At(s, i) == IF i \in 1..Len(s) THEN s[i] ELSE ""

\* Python's (and MongoDB's binary) string order: a <= b.
RECURSIVE StrLeq(_, _)
StrLeq(a, b) ==
    IF a = <<>> THEN TRUE
    ELSE IF b = <<>> THEN FALSE
    ELSE IF Head(a) = Head(b) THEN StrLeq(Tail(a), Tail(b))
    ELSE Ord(Head(a)) < Ord(Head(b))

(***************************** dates ***************************************)
\* What Optional[str] = None holds when the parameter is not sent.
None == <<"None">>

\* Python truthiness of an Optional[str]: None and "" are falsy.
Truthy(s) == s # None /\ s # <<>>

ValueError == <<"ValueError">>

IsLeap(y) == (y % 4 = 0 /\ y % 100 # 0) \/ y % 400 = 0

DaysInMonth(y, m) ==
    IF m = 2 THEN (IF IsLeap(y) THEN 29 ELSE 28)
    ELSE IF m \in {4, 6, 9, 11} THEN 30 ELSE 31

\* Length of the text that %m takes at position i: the first alternative of
\* 1[0-2] | 0[1-9] | [1-9] that matches, 0 when none does.
MonthLen(s, i) ==
    IF At(s, i) = "1" /\ At(s, i + 1) \in {"0", "1", "2"} THEN 2
    ELSE IF At(s, i) = "0" /\ IsDigit(At(s, i + 1)) /\ At(s, i + 1) # "0" THEN 2
    ELSE IF IsDigit(At(s, i)) /\ At(s, i) # "0" THEN 1
    ELSE 0

\* Likewise for %d: 3[01] | [12]\d | 0[1-9] | [1-9] | " "[1-9].
DayLen(s, i) ==
    IF At(s, i) = "3" /\ At(s, i + 1) \in {"0", "1"} THEN 2
    ELSE IF At(s, i) \in {"1", "2"} /\ IsDigit(At(s, i + 1)) THEN 2
    ELSE IF At(s, i) = "0" /\ IsDigit(At(s, i + 1)) /\ At(s, i + 1) # "0" THEN 2
    ELSE IF IsDigit(At(s, i)) /\ At(s, i) # "0" THEN 1
    ELSE IF At(s, i) = " " /\ IsDigit(At(s, i + 1)) /\ At(s, i + 1) # "0" THEN 2
    ELSE 0

\* Value of the digits of s[i..j]; blanks count as nothing.
RECURSIVE NumVal(_, _, _)
NumVal(s, i, j) ==
    IF j < i THEN 0
    ELSE IF s[j] = " " THEN NumVal(s, i, j - 1)
    ELSE 10 * NumVal(s, i, j - 1) + DigitVal(s[j])

\* datetime.strptime(s, "%Y-%m-%d"): the date <<y, m, d>>, or ValueError.
\* %Y is exactly four digits; %m and %d take one or two characters; all of
\* s must be consumed; the date must exist.
Strptime(s) ==
    IF ~(\A i \in 1..4 : IsDigit(At(s, i))) \/ At(s, 5) # "-" THEN ValueError
    ELSE LET ml == MonthLen(s, 6)
             dl == DayLen(s, 6 + ml + 1)
         IN  IF ml = 0 \/ At(s, 6 + ml) # "-" \/ dl = 0 THEN ValueError
             ELSE IF 6 + ml + dl # Len(s) THEN ValueError
             ELSE LET y == NumVal(s, 1, 4)
                      m == NumVal(s, 6, 5 + ml)
                      d == NumVal(s, 7 + ml, 6 + ml + dl)
                  IN  IF y < 1 \/ d > DaysInMonth(y, m) THEN ValueError
                      ELSE <<y, m, d>>

\* n as exactly w decimal digits.
RECURSIVE Pad(_, _)
Pad(n, w) == IF w = 0 THEN <<>> ELSE Pad(n \div 10, w - 1) \o <<Digits[(n % 10) + 1]>>

\* date.strftime("%Y-%m-%d").
Strftime(date) == Pad(date[1], 4) \o <<"-">> \o Pad(date[2], 2) \o <<"-">> \o Pad(date[3], 2)

\* datetime.isoformat(); the time of day is left out of the model's clock,
\* so the timestamp is the date followed by the T that starts the time.
Isoformat(date) == Strftime(date) \o <<"T">>

(***************************** ObjectId ************************************)
IsHex(c) == c \in HexSet

\* int(c, 16)
HexValues ==
    ("0" :> 0) @@ ("1" :> 1) @@ ("2" :> 2) @@ ("3" :> 3) @@ ("4" :> 4) @@ ("5" :> 5)
    @@ ("6" :> 6) @@ ("7" :> 7) @@ ("8" :> 8) @@ ("9" :> 9)
    @@ ("a" :> 10) @@ ("b" :> 11) @@ ("c" :> 12) @@ ("d" :> 13) @@ ("e" :> 14) @@ ("f" :> 15)
    @@ ("A" :> 10) @@ ("B" :> 11) @@ ("C" :> 12) @@ ("D" :> 13) @@ ("E" :> 14) @@ ("F" :> 15)

HexVal(c) == HexValues[c]

InvalidId == -1

\* ObjectId(s) for a str: 24 hex characters of either case, else InvalidId.
RECURSIVE HexNum(_, _)
HexNum(s, j) == IF j = 0 THEN 0 ELSE 16 * HexNum(s, j - 1) + HexVal(s[j])

ObjectId(s) ==
    IF Len(s) = OidHexLen /\ \A i \in 1..Len(s) : IsHex(s[i]) THEN HexNum(s, Len(s))
    ELSE InvalidId

\* n as exactly w lower-case hex digits.
RECURSIVE HexPad(_, _)
HexPad(n, w) == IF w = 0 THEN <<>> ELSE HexPad(n \div 16, w - 1) \o <<HexLower[(n % 16) + 1]>>

\* str(oid): 24 lower-case hex characters.
OidStr(oid) == HexPad(oid, OidHexLen)

(***************************** inputs **************************************)
Workers == 1..MaxWorkers

\* The Identity Store: the keys (_id) of the registered teachers.
teachers_collection == {"mrodriguez"}

Usernames == teachers_collection \cup {"guest"}

Messages == {"Bus delay", "Gym closed"}

\* The server's clock shows one of these dates, in this order.
ClockDates == << <<2024, 3, 5>>, <<2024, 10, 1>> >>

\* "2024-3-5": a date that is not zero-padded.  "13/2023": no date at all.
Unpadded == <<"2", "0", "2", "4", "-", "3", "-", "5">>
Slashed == <<"1", "3", "/", "2", "0", "2", "3">>

\* "2024-03-05", "2024-3-5", "2024-10-01", "2024-02-30", "13/2023", "".
ExpirationInputs ==
    {Strftime(<<2024, 3, 5>>), Unpadded, Strftime(<<2024, 10, 1>>),
     Strftime(<<2024, 2, 30>>), Slashed, <<>>}

\* not sent, "", "2024-03-05", "2024-10-01", "13/2023".
StartInputs ==
    {None, <<>>, Strftime(<<2024, 3, 5>>), Strftime(<<2024, 10, 1>>), Slashed}

\* What the parameters that a handler does not read are set to.
DefaultInput == <<>>
DefaultMessage == ""

\* The first identifier in upper case ("...0A"), an identifier of 24 hex
\* characters for each ObjectId the store can assign and one more that it
\* never assigns, and a string that is no identifier.
UpperCase(s) == [i \in DOMAIN s |-> HexUpper[HexVal(s[i]) + 1]]

IdInputs ==
    {OidStr(FirstOid + k) : k \in 0..MaxRecords}
        \cup {UpperCase(OidStr(FirstOid)), <<"n", "o", "t", "-", "a", "n", "-", "i", "d">>}

(* The conversions on the inputs of the model, computed once: each table   *)
(* pairs an input with what the conversion makes of it.                    *)
Memo(table, x) == (CHOOSE p \in table : p[1] = x)[2]

StrptimeTable == {<<s, Strptime(s)>> : s \in ExpirationInputs \cup StartInputs}
StrftimeTable == {<<ClockDates[k], Strftime(ClockDates[k])>> : k \in DOMAIN ClockDates}
IsoformatTable == {<<ClockDates[k], Isoformat(ClockDates[k])>> : k \in DOMAIN ClockDates}
ObjectIdTable == {<<s, ObjectId(s)>> : s \in IdInputs \cup {DefaultInput}}
OidStrTable == {<<FirstOid + k, OidStr(FirstOid + k)>> : k \in 0..MaxRecords}

strptime(s) == Memo(StrptimeTable, s)
strftime(date) == Memo(StrftimeTable, date)
isoformat(date) == Memo(IsoformatTable, date)
object_id(s) == Memo(ObjectIdTable, s)
str(oid) == Memo(OidStrTable, oid)

(***************************** the store ***********************************)
\* find_one's None.
NoneDoc == [none |-> TRUE]

Ids(coll) == {coll[i]["_id"] : i \in DOMAIN coll}

\* collection.find_one({"_id": oid}).
find_one(coll, oid) ==
    IF oid \in Ids(coll)
    THEN coll[CHOOSE i \in DOMAIN coll : coll[i]["_id"] = oid /\ \A j \in 1..(i - 1) : coll[j]["_id"] # oid]
    ELSE NoneDoc

\* matched_count of update_one({"_id": oid}, ...), deleted_count of delete_one.
matched_count(coll, oid) == IF oid \in Ids(coll) THEN 1 ELSE 0

\* update_one({"_id": oid}, {"$unset": {field: ""}}).
update_one_unset(coll, oid, field) ==
    [i \in DOMAIN coll |->
        IF coll[i]["_id"] = oid
        THEN [f \in (DOMAIN coll[i]) \ {field} |-> coll[i][f]]
        ELSE coll[i]]

\* update_one({"_id": oid}, {"$set": update_doc}).
update_one_set(coll, oid, update_doc) ==
    [i \in DOMAIN coll |->
        IF coll[i]["_id"] = oid THEN update_doc @@ coll[i] ELSE coll[i]]

\* delete_one({"_id": oid}).
delete_one(coll, oid) == SelectSeq(coll, LAMBDA d : d["_id"] # oid)

\* insert_one(doc): the store assigns the _id and appends the document.
insert_one(coll, doc, oid) == Append(coll, ("_id" :> oid) @@ doc)

\* announcement["_id"] = str(announcement["_id"]).
WithStrId(doc) == ("_id" :> str(doc["_id"])) @@ doc

StrIds(docs) == [i \in DOMAIN docs |-> WithStrId(docs[i])]

(***************************** responses ***********************************)
Ok(op, body) == [op |-> op, status |-> 200, detail |-> "", body |-> body]

HTTPException(op, status_code, detail) ==
    [op |-> op, status |-> status_code, detail |-> detail, body |-> <<>>]

\* An exception that no handler catches: the framework answers 500.
InternalError(op) ==
    [op |-> op, status |-> 500, detail |-> "Internal Server Error", body |-> <<>>]

\* What a handler leaves: the collection and the response.
Outcome(coll, response) == [coll |-> coll, resp |-> response]

(***************************** handlers ************************************)
\* The query {"expiration_date": {"$gte": current_date}} on one document.
expiration_query(doc, current_date) ==
    "expiration_date" \in DOMAIN doc /\ StrLeq(current_date, doc["expiration_date"])

\* Variant: the start_date check is left out.
start_filter_ignored(announcement, current_date) == TRUE

\* The start_date filter of the loop over the query's result.
start_filter(announcement, current_date) ==
    IF "start_date" \in DOMAIN announcement /\ Truthy(announcement["start_date"])
    THEN StrLeq(announcement["start_date"], current_date)
    ELSE TRUE

\* GET /announcements
get_active_announcements(coll, now) ==
    LET current_date == strftime(now)
        announcements == SelectSeq(coll, LAMBDA d : expiration_query(d, current_date))
        active_announcements == SelectSeq(announcements, LAMBDA a : start_filter(a, current_date))
    IN  Outcome(coll, Ok("list_active", StrIds(active_announcements)))

\* key=lambda x: x.get("expiration_date", "")
sort_key(x) == IF "expiration_date" \in DOMAIN x THEN x["expiration_date"] ELSE <<>>

\* x put into a list that is sorted descending, behind every element whose
\* key is not below its own: list.sort is stable, also with reverse=True.
RECURSIVE insert_desc(_, _)
insert_desc(sorted, x) ==
    IF sorted = <<>> THEN <<x>>
    ELSE IF StrLeq(sort_key(x), sort_key(Head(sorted)))
         THEN <<Head(sorted)>> \o insert_desc(Tail(sorted), x)
         ELSE <<x>> \o sorted

\* Variant: reverse=True is left out, the list comes out ascending.
RECURSIVE insert_asc(_, _)
insert_asc(sorted, x) ==
    IF sorted = <<>> THEN <<x>>
    ELSE IF StrLeq(sort_key(Head(sorted)), sort_key(x))
         THEN <<Head(sorted)>> \o insert_asc(Tail(sorted), x)
         ELSE <<x>> \o sorted

RECURSIVE sort_forward(_)
sort_forward(list) ==
    IF list = <<>> THEN <<>>
    ELSE insert_asc(sort_forward(SubSeq(list, 1, Len(list) - 1)), list[Len(list)])

\* announcements.sort(key=..., reverse=True)
RECURSIVE sort_reverse(_)
sort_reverse(list) ==
    IF list = <<>> THEN <<>>
    ELSE insert_desc(sort_reverse(SubSeq(list, 1, Len(list) - 1)), list[Len(list)])

\* GET /announcements/all
get_all_announcements(coll, username) ==
    IF username \notin teachers_collection
    THEN Outcome(coll, HTTPException("list_all", 401, "Authentication required"))
    ELSE Outcome(coll, Ok("list_all", sort_reverse(StrIds(coll))))

\* The two date checks that create and update share, ahead of any write:
\* the response of the first that fails, or NoneDoc when both pass.
validate_dates(op, expiration_date, start_date) ==
    IF strptime(expiration_date) = ValueError
    THEN HTTPException(op, 400, "Invalid expiration_date format. Use YYYY-MM-DD")
    ELSE IF Truthy(start_date) /\ strptime(start_date) = ValueError
    THEN HTTPException(op, 400, "Invalid start_date format. Use YYYY-MM-DD")
    ELSE NoneDoc

\* Variant: the start_date is not put into the document.
new_announcement_without_start(now, username, message, expiration_date, start_date) ==
    [message |-> message, expiration_date |-> expiration_date,
     created_by |-> username, created_at |-> isoformat(now)]

\* The announcement document that create builds.
new_announcement(now, username, message, expiration_date, start_date) ==
    LET announcement ==
            [message |-> message, expiration_date |-> expiration_date,
             created_by |-> username, created_at |-> isoformat(now)]
    IN  IF Truthy(start_date) THEN ("start_date" :> start_date) @@ announcement
        ELSE announcement

\* POST /announcements; oid is the identifier the store assigns.
create_announcement(coll, oid, now, username, message, expiration_date, start_date) ==
    IF username \notin teachers_collection
    THEN Outcome(coll, HTTPException("create", 401, "Authentication required"))
    ELSE LET invalid == validate_dates("create", expiration_date, start_date) IN
    IF invalid # NoneDoc
    THEN Outcome(coll, invalid)
    ELSE LET announcement == new_announcement(now, username, message, expiration_date, start_date)
         IN  Outcome(insert_one(coll, announcement, oid),
                     Ok("create", <<("_id" :> str(oid)) @@ announcement>>))

\* Variant: the identifier is checked before the user is.
update_checks_id_first(announcement_id, username, expiration_date, start_date) ==
    IF object_id(announcement_id) = InvalidId
    THEN HTTPException("update", 400, "Invalid announcement ID")
    ELSE IF username \notin teachers_collection
    THEN HTTPException("update", 401, "Authentication required")
    ELSE validate_dates("update", expiration_date, start_date)

\* update's checks ahead of its first write: the error response, or NoneDoc.
update_checks(announcement_id, username, expiration_date, start_date) ==
    IF username \notin teachers_collection
    THEN HTTPException("update", 401, "Authentication required")
    ELSE IF object_id(announcement_id) = InvalidId
    THEN HTTPException("update", 400, "Invalid announcement ID")
    ELSE validate_dates("update", expiration_date, start_date)

\* The update document.
build_update_doc(now, username, message, expiration_date, start_date) ==
    LET update_doc ==
            [message |-> message, expiration_date |-> expiration_date,
             updated_by |-> username, updated_at |-> isoformat(now)]
    IN  IF Truthy(start_date) THEN ("start_date" :> start_date) @@ update_doc
        ELSE update_doc

\* Variant: the $unset is left out.
unset_start_date_skipped(coll, obj_id, start_date) == coll

\* The $unset write, which update performs only when start_date is falsy.
unset_start_date(coll, obj_id, start_date) ==
    IF Truthy(start_date) THEN coll ELSE update_one_unset(coll, obj_id, "start_date")

\* The read-back that ends update: find_one, then updated["_id"] = str(...),
\* which raises TypeError on None.
read_back(coll, obj_id) ==
    LET updated_announcement == find_one(coll, obj_id)
    IN  IF updated_announcement = NoneDoc THEN InternalError("update")
        ELSE Ok("update", <<WithStrId(updated_announcement)>>)

\* Variant: the $unset is done before the dates are validated.
update_announcement_unset_first(coll, now, announcement_id, username, message, expiration_date, start_date) ==
    IF username \notin teachers_collection
    THEN Outcome(coll, HTTPException("update", 401, "Authentication required"))
    ELSE IF object_id(announcement_id) = InvalidId
    THEN Outcome(coll, HTTPException("update", 400, "Invalid announcement ID"))
    ELSE LET obj_id == object_id(announcement_id)
             unset == unset_start_date(coll, obj_id, start_date)
             invalid == validate_dates("update", expiration_date, start_date)
             update_doc == build_update_doc(now, username, message, expiration_date, start_date)
             written == update_one_set(unset, obj_id, update_doc)
         IN  IF invalid # NoneDoc THEN Outcome(unset, invalid)
             ELSE IF matched_count(unset, obj_id) = 0
             THEN Outcome(written, HTTPException("update", 404, "Announcement not found"))
             ELSE Outcome(written, read_back(written, obj_id))

\* PUT /announcements/{announcement_id}, with no other request in between.
update_announcement(coll, now, announcement_id, username, message, expiration_date, start_date) ==
    LET failed == update_checks(announcement_id, username, expiration_date, start_date) IN
    IF failed # NoneDoc
    THEN Outcome(coll, failed)
    ELSE LET obj_id == object_id(announcement_id)
             update_doc == build_update_doc(now, username, message, expiration_date, start_date)
             unset == unset_start_date(coll, obj_id, start_date)
             written == update_one_set(unset, obj_id, update_doc)
         IN  IF matched_count(unset, obj_id) = 0
             THEN Outcome(written, HTTPException("update", 404, "Announcement not found"))
             ELSE Outcome(written, read_back(written, obj_id))

\* Variant: deleted_count is not looked at.
delete_announcement_unchecked(coll, announcement_id, username) ==
    IF username \notin teachers_collection
    THEN Outcome(coll, HTTPException("delete", 401, "Authentication required"))
    ELSE IF object_id(announcement_id) = InvalidId
    THEN Outcome(coll, HTTPException("delete", 400, "Invalid announcement ID"))
    ELSE Outcome(delete_one(coll, object_id(announcement_id)),
                 Ok("delete", <<[message |-> "Announcement deleted successfully"]>>))

\* DELETE /announcements/{announcement_id}
delete_announcement(coll, announcement_id, username) ==
    IF username \notin teachers_collection
    THEN Outcome(coll, HTTPException("delete", 401, "Authentication required"))
    ELSE LET obj_id == object_id(announcement_id) IN
    IF obj_id = InvalidId
    THEN Outcome(coll, HTTPException("delete", 400, "Invalid announcement ID"))
    ELSE IF matched_count(coll, obj_id) = 0
    THEN Outcome(coll, HTTPException("delete", 404, "Announcement not found"))
    ELSE Outcome(delete_one(coll, obj_id),
                 Ok("delete", <<[message |-> "Announcement deleted successfully"]>>))

(***************************** actions *************************************)
NoResponse == [op |-> "none", status |-> 0, detail |-> "", body |-> <<>>]

Init ==
    /\ announcements_collection = <<>>
    /\ next_oid = FirstOid
    /\ today = ClockDates[1]
    /\ resp = NoResponse
    /\ pc = [w \in Workers |-> "idle"]
    /\ req = [w \in Workers |-> NoneDoc]
    /\ nreq = 0

\* A handler ends: its writes are in the store and its response is sent.
Ends(outcome) ==
    /\ announcements_collection' = outcome.coll
    /\ resp' = outcome.resp

\* The date changes.
Tick ==
    /\ \E i, j \in DOMAIN ClockDates :
          today = ClockDates[i] /\ i < j /\ today' = ClockDates[j]
    /\ UNCHANGED <<announcements_collection, next_oid, resp, pc, req, nreq>>

(* The requests that the actions draw.  A handler that returns early does  *)
(* not read its remaining parameters, so of the requests it cannot tell    *)
(* apart one is drawn: the one whose unread parameters are the defaults.   *)
CreateRequest(username, message, expiration_date, start_date) ==
    LET authorized == username \in teachers_collection
        dated == authorized /\ strptime(expiration_date) # ValueError
        passed == dated /\ (Truthy(start_date) => strptime(start_date) # ValueError)
    IN  [username |-> username,
         expiration_date |-> IF authorized THEN expiration_date ELSE DefaultInput,
         start_date |-> IF dated THEN start_date ELSE DefaultInput,
         message |-> IF passed THEN message ELSE DefaultMessage]

UpdateRequest(announcement_id, username, message, expiration_date, start_date) ==
    LET authorized == username \in teachers_collection
        identified == authorized /\ object_id(announcement_id) # InvalidId
        dated == identified /\ strptime(expiration_date) # ValueError
        passed == dated /\ (Truthy(start_date) => strptime(start_date) # ValueError)
    IN  [announcement_id |-> IF authorized THEN announcement_id ELSE DefaultInput,
         username |-> username,
         expiration_date |-> IF identified THEN expiration_date ELSE DefaultInput,
         start_date |-> IF dated THEN start_date ELSE DefaultInput,
         message |-> IF passed THEN message ELSE DefaultMessage]

DeleteRequest(announcement_id, username) ==
    [announcement_id |->
        IF username \in teachers_collection THEN announcement_id ELSE DefaultInput,
     username |-> username]

CreateRequests ==
    {CreateRequest(username, message, expiration_date, start_date) :
        username \in Usernames, message \in Messages,
        expiration_date \in ExpirationInputs, start_date \in StartInputs}

UpdateRequests ==
    {UpdateRequest(announcement_id, username, message, expiration_date, start_date) :
        announcement_id \in IdInputs, username \in Usernames, message \in Messages,
        expiration_date \in ExpirationInputs, start_date \in StartInputs}

DeleteRequests ==
    {DeleteRequest(announcement_id, username) :
        announcement_id \in IdInputs, username \in Usernames}

\* A request starts.
Started == nreq < MaxRequests /\ nreq' = nreq + 1

DoGetActive ==
    /\ Started
    /\ Ends(get_active_announcements(announcements_collection, today))
    /\ UNCHANGED <<next_oid, today>>

DoGetAll ==
    \E username \in Usernames :
        /\ Started
        /\ Ends(get_all_announcements(announcements_collection, username))
        /\ UNCHANGED <<next_oid, today>>

DoCreate ==
    \E r \in CreateRequests :
        LET outcome == create_announcement(announcements_collection, next_oid, today,
                            r.username, r.message, r.expiration_date, r.start_date)
        IN  /\ Started
            /\ outcome.resp.status = 200 => next_oid < FirstOid + MaxRecords
            /\ Ends(outcome)
            /\ next_oid' = IF outcome.resp.status = 200 THEN next_oid + 1 ELSE next_oid
            /\ UNCHANGED today

DoUpdate ==
    \E r \in UpdateRequests :
        /\ Started
        /\ Ends(update_announcement(announcements_collection, today, r.announcement_id,
                    r.username, r.message, r.expiration_date, r.start_date))
        /\ UNCHANGED <<next_oid, today>>

DoDelete ==
    \E r \in DeleteRequests :
        /\ Started
        /\ Ends(delete_announcement(announcements_collection, r.announcement_id, r.username))
        /\ UNCHANGED <<next_oid, today>>

(* Requests served one after the other: each handler runs from its first   *)
(* line to its response with no other request in between.                  *)
GetActive == DoGetActive /\ UNCHANGED <<pc, req>>
GetAll == DoGetAll /\ UNCHANGED <<pc, req>>
Create == DoCreate /\ UNCHANGED <<pc, req>>
Update == DoUpdate /\ UNCHANGED <<pc, req>>
Delete == DoDelete /\ UNCHANGED <<pc, req>>

Next == Tick \/ GetActive \/ GetAll \/ Create \/ Update \/ Delete

Spec == Init /\ [][Next]_vars

(* Requests served by worker threads at once (the handlers are plain def   *)
(* functions, which the framework runs in a thread pool).  Every call on   *)
(* announcements_collection is one atomic step of the store.  The handlers *)
(* other than update make one such call; update makes up to three: the     *)
(* $unset, the $set and the find_one.  The requests of a run overlap       *)
(* within one day: the date does not change.                               *)
ConcGetActive == DoGetActive /\ UNCHANGED <<pc, req>>
ConcGetAll == DoGetAll /\ UNCHANGED <<pc, req>>
ConcCreate == DoCreate /\ UNCHANGED <<pc, req>>
ConcDelete == DoDelete /\ UNCHANGED <<pc, req>>

\* update up to and including its first call on announcements_collection.
UpdateBegin(w) ==
    \E r \in UpdateRequests :
        LET announcement_id == r.announcement_id
            start_date == r.start_date
            checks == update_checks(announcement_id, r.username, r.expiration_date, start_date)
            obj_id == object_id(announcement_id)
            update_doc == build_update_doc(today, r.username, r.message, r.expiration_date, start_date)
            locals == [obj_id |-> obj_id, update_doc |-> update_doc]
        IN  /\ pc[w] = "idle"
            /\ Started
            /\ UNCHANGED <<next_oid, today>>
            /\ IF checks # NoneDoc
               THEN Ends(Outcome(announcements_collection, checks)) /\ UNCHANGED <<pc, req>>
               ELSE IF ~Truthy(start_date)
               THEN /\ announcements_collection' =
                            unset_start_date(announcements_collection, obj_id, start_date)
                    /\ pc' = [pc EXCEPT ![w] = "set"]
                    /\ req' = [req EXCEPT ![w] = locals]
                    /\ UNCHANGED resp
               ELSE /\ announcements_collection' =
                            update_one_set(announcements_collection, obj_id, update_doc)
                    /\ IF matched_count(announcements_collection, obj_id) = 0
                       THEN /\ resp' = HTTPException("update", 404, "Announcement not found")
                            /\ UNCHANGED <<pc, req>>
                       ELSE /\ pc' = [pc EXCEPT ![w] = "find"]
                            /\ req' = [req EXCEPT ![w] = locals]
                            /\ UNCHANGED resp

\* The $set of an update that has done its $unset.
UpdateSet(w) ==
    /\ pc[w] = "set"
    /\ announcements_collection' =
            update_one_set(announcements_collection, req[w].obj_id, req[w].update_doc)
    /\ IF matched_count(announcements_collection, req[w].obj_id) = 0
       THEN /\ resp' = HTTPException("update", 404, "Announcement not found")
            /\ pc' = [pc EXCEPT ![w] = "idle"]
            /\ req' = [req EXCEPT ![w] = NoneDoc]
       ELSE /\ pc' = [pc EXCEPT ![w] = "find"]
            /\ UNCHANGED <<resp, req>>
    /\ UNCHANGED <<next_oid, today, nreq>>

\* The find_one that reads the record back, and the response.
UpdateFind(w) ==
    /\ pc[w] = "find"
    /\ resp' = read_back(announcements_collection, req[w].obj_id)
    /\ pc' = [pc EXCEPT ![w] = "idle"]
    /\ req' = [req EXCEPT ![w] = NoneDoc]
    /\ UNCHANGED <<announcements_collection, next_oid, today, nreq>>

ConcUpdateBegin == \E w \in Workers : UpdateBegin(w)
ConcUpdateSet == \E w \in Workers : UpdateSet(w)
ConcUpdateFind == \E w \in Workers : UpdateFind(w)

ConcNext ==
    \/ ConcGetActive \/ ConcGetAll \/ ConcCreate \/ ConcDelete
    \/ ConcUpdateBegin \/ ConcUpdateSet \/ ConcUpdateFind

ConcSpec == Init /\ [][ConcNext]_vars

(***************************** claims **************************************)
Stored == announcements_collection

Teachers == teachers_collection
Strangers == Usernames \ teachers_collection

\* The identifier inputs that are 24 hex characters, and the one that is not.
WellFormedIds == {OidStr(FirstOid + k) : k \in 0..MaxRecords} \cup {UpperCase(OidStr(FirstOid))}
MalformedIds == IdInputs \ WellFormedIds

\* The date inputs that name no calendar date: "2024-02-30", "13/2023", "".
BadDates == {Strftime(<<2024, 2, 30>>), Slashed, <<>>}

\* The requests that the actions draw are enough to reach every state: in
\* every reachable state each request the inputs allow has the outcome of
\* the drawn request that stands for it.
RepresentativesSuffice ==
    /\ \A username \in Usernames, message \in Messages,
          expiration_date \in ExpirationInputs, start_date \in StartInputs :
          LET r == CreateRequest(username, message, expiration_date, start_date)
          IN  create_announcement(Stored, next_oid, today, username, message,
                                  expiration_date, start_date)
                = create_announcement(Stored, next_oid, today, r.username, r.message,
                                      r.expiration_date, r.start_date)
    /\ \A announcement_id \in IdInputs, username \in Usernames, message \in Messages,
          expiration_date \in ExpirationInputs, start_date \in StartInputs :
          LET r == UpdateRequest(announcement_id, username, message, expiration_date,
                                 start_date)
          IN  update_announcement(Stored, today, announcement_id, username, message,
                                  expiration_date, start_date)
                = update_announcement(Stored, today, r.announcement_id, r.username,
                                      r.message, r.expiration_date, r.start_date)
    /\ \A announcement_id \in IdInputs, username \in Usernames :
          LET r == DeleteRequest(announcement_id, username)
          IN  delete_announcement(Stored, announcement_id, username)
                = delete_announcement(Stored, r.announcement_id, r.username)

\* The record is active at the date now, the dates compared as strings.
C1_ActiveAt(doc, now) ==
    /\ "expiration_date" \in DOMAIN doc
    /\ StrLeq(now, doc["expiration_date"])
    /\ "start_date" \notin DOMAIN doc \/ StrLeq(doc["start_date"], now)

(* C1.  At every date of the clock, GET /announcements returns exactly the *)
(* stored announcements that are active at that date, each once: a record  *)
(* is returned iff its expiration_date >= now and it has no start_date or  *)
(* its start_date <= now, the dates compared as the strings they are.      *)
C1_ListActiveExact ==
    \A k \in DOMAIN ClockDates :
        LET now == strftime(ClockDates[k])
            outcome == get_active_announcements(Stored, ClockDates[k])
            body == outcome.resp.body
        IN  /\ outcome.resp.status = 200
            /\ outcome.coll = Stored
            /\ \A i \in DOMAIN Stored :
                  C1_ActiveAt(Stored[i], now)
                    <=> \E j \in DOMAIN body : body[j] = WithStrId(Stored[i])
            /\ \A j \in DOMAIN body : \E i \in DOMAIN Stored : body[j] = WithStrId(Stored[i])
            /\ \A j, l \in DOMAIN body : body[j]["_id"] = body[l]["_id"] => j = l

\* The list came back with one of two stored records: the other one has not
\* started yet, though it has not expired.
C1_Witness ==
    /\ resp.op = "list_active" /\ resp.status = 200
    /\ Len(Stored) = 2 /\ Len(resp.body) = 1
    /\ \E i \in DOMAIN Stored :
          /\ "start_date" \in DOMAIN Stored[i]
          /\ ~StrLeq(Stored[i]["start_date"], strftime(today))
          /\ StrLeq(strftime(today), Stored[i]["expiration_date"])

\* The handler has refused the request and written nothing.
C2_Refused(outcome) ==
    /\ outcome.resp.status = 401
    /\ outcome.resp.body = <<>>
    /\ outcome.coll = Stored

(* C2.  With a username that is no key of the Identity Store, list_all,    *)
(* create, update and delete end with 401, return no data and leave the    *)
(* Announcement Store as it is, whatever the other parameters are.         *)
C2_AuthorizationFirst ==
    \A username \in Strangers :
        /\ C2_Refused(get_all_announcements(Stored, username))
        /\ \A message \in Messages, expiration_date \in ExpirationInputs,
              start_date \in StartInputs :
              /\ C2_Refused(create_announcement(Stored, next_oid, today, username, message,
                                                expiration_date, start_date))
              /\ \A announcement_id \in IdInputs :
                    C2_Refused(update_announcement(Stored, today, announcement_id, username,
                                                   message, expiration_date, start_date))
        /\ \A announcement_id \in IdInputs :
              C2_Refused(delete_announcement(Stored, announcement_id, username))

\* An update of a stranger has been refused while a record is stored.
C2_Witness ==
    /\ resp.op = "update" /\ resp.status = 401 /\ resp.body = <<>>
    /\ Len(Stored) > 0

(* C3.  An update by a registered user with a well-formed id whose         *)
(* expiration_date names no date, or whose start_date is provided          *)
(* (non-empty) and names no date, ends with 400 for the date and leaves    *)
(* every record as it is; and whenever an update ends with 400 the store   *)
(* is as before, so the $unset never precedes the validation.              *)
C3_InvalidDateNoWrite ==
    \A announcement_id \in IdInputs, username \in Teachers, message \in Messages,
       expiration_date \in ExpirationInputs, start_date \in StartInputs :
        LET outcome == update_announcement(Stored, today, announcement_id, username,
                                           message, expiration_date, start_date)
            invalid == \/ expiration_date \in BadDates
                       \/ Truthy(start_date) /\ start_date \in BadDates
        IN  /\ (announcement_id \in WellFormedIds /\ invalid) =>
                  /\ outcome.resp.status = 400
                  /\ outcome.resp.detail \in
                        {"Invalid expiration_date format. Use YYYY-MM-DD",
                         "Invalid start_date format. Use YYYY-MM-DD"}
            /\ outcome.resp.status = 400 => outcome.coll = Stored

\* An update has ended with InvalidDate while a record with a start_date is
\* stored.
C3_Witness ==
    /\ resp.op = "update" /\ resp.status = 400
    /\ resp.detail = "Invalid expiration_date format. Use YYYY-MM-DD"
    /\ \E i \in DOMAIN Stored : "start_date" \in DOMAIN Stored[i]

\* The record has every field of the update document.
C4_Carries(doc, update_doc) ==
    \A f \in DOMAIN update_doc : f \in DOMAIN doc /\ doc[f] = update_doc[f]

(* C4.  The update of a record is one logical replace: the store never     *)
(* holds a record from which start_date has been removed while it does not *)
(* yet carry the message, expiration_date, updated_by and updated_at of    *)
(* the update that removed it.  Stated of the steps of the concurrent      *)
(* runs: a step that takes start_date off a record leaves the record with  *)
(* all the fields of the update document of a worker that is in an update  *)
(* of that record.                                                         *)
C4_OneLogicalReplace ==
    [][\A i \in DOMAIN Stored :
          LET before == Stored[i]
              after == find_one(announcements_collection', before["_id"])
          IN  ("start_date" \in DOMAIN before /\ after # NoneDoc
                    /\ "start_date" \notin DOMAIN after)
                => \E w \in Workers :
                      /\ req'[w] # NoneDoc
                      /\ req'[w].obj_id = before["_id"]
                      /\ C4_Carries(after, req'[w].update_doc)]_vars

(* C5.  After a successful update the record fetched by its id has the     *)
(* supplied message and expiration_date, updated_by equal to the username, *)
(* updated_at set, the start_date that was provided (non-empty), and no    *)
(* start_date field when none was provided; the response is that record.   *)
C5_UpdateReplaces ==
    \A r \in UpdateRequests :
        LET outcome == update_announcement(Stored, today, r.announcement_id, r.username,
                                           r.message, r.expiration_date, r.start_date)
            fetched == find_one(outcome.coll, object_id(r.announcement_id))
        IN  outcome.resp.status = 200 =>
              /\ fetched # NoneDoc
              /\ fetched["message"] = r.message
              /\ fetched["expiration_date"] = r.expiration_date
              /\ fetched["updated_by"] = r.username
              /\ "updated_at" \in DOMAIN fetched
              /\ Truthy(r.start_date) =>
                    "start_date" \in DOMAIN fetched /\ fetched["start_date"] = r.start_date
              /\ ~Truthy(r.start_date) => "start_date" \notin DOMAIN fetched
              /\ outcome.resp.body = <<WithStrId(fetched)>>

\* An update has succeeded and its record has no start_date.
C5_Witness ==
    /\ resp.op = "update" /\ resp.status = 200
    /\ "start_date" \notin DOMAIN resp.body[1]
    /\ "updated_by" \in DOMAIN resp.body[1]
    /\ \E i \in DOMAIN Stored : WithStrId(Stored[i]) = resp.body[1]

\* The collection less the record with the identifier oid.
C6_Without(coll, oid) ==
    LET i == CHOOSE j \in DOMAIN coll : coll[j]["_id"] = oid
    IN  SubSeq(coll, 1, i - 1) \o SubSeq(coll, i + 1, Len(coll))

(* C6.  For a registered user, delete on a malformed id ends with 400 and  *)
(* delete on a well-formed id that matches no record ends with 404, both   *)
(* leaving the store as it is; delete on the id of a stored record ends    *)
(* with 200 and removes that record and no other.                          *)
C6_Delete ==
    \A announcement_id \in IdInputs, username \in Teachers :
        LET outcome == delete_announcement(Stored, announcement_id, username)
            oid == object_id(announcement_id)
        IN  IF announcement_id \in MalformedIds
            THEN outcome.resp.status = 400 /\ outcome.coll = Stored
            ELSE IF \A i \in DOMAIN Stored : Stored[i]["_id"] # oid
            THEN outcome.resp.status = 404 /\ outcome.coll = Stored
            ELSE outcome.resp.status = 200 /\ outcome.coll = C6_Without(Stored, oid)

\* A delete has succeeded and another record is still stored.
C6_Witness ==
    /\ resp.op = "delete" /\ resp.status = 200
    /\ Len(Stored) = 1 /\ next_oid = FirstOid + 2

\* list_all by a registered user shows a record with doc's identifier that
\* agrees with doc on the fields named.
C7_Listed(coll, doc, fields) ==
    \A username \in Teachers :
        LET body == get_all_announcements(coll, username).resp.body
        IN  \E j \in DOMAIN body :
                /\ body[j]["_id"] = str(doc["_id"])
                /\ \A f \in fields :
                      /\ f \in DOMAIN doc <=> f \in DOMAIN body[j]
                      /\ f \in DOMAIN doc => body[j][f] = doc[f]

C7_Supplied == {"message", "expiration_date", "start_date"}
C7_Stamps == {"created_by", "created_at"}

\* C7, the create itself: a successful create adds exactly one record,
\* changes no existing one, and list_all then shows the record with the
\* returned identifier, created_by, created_at and the supplied values.
C7_CreateStores ==
    \A r \in CreateRequests :
        LET outcome == create_announcement(Stored, next_oid, today, r.username, r.message,
                                           r.expiration_date, r.start_date)
            supplied == [message |-> r.message, expiration_date |-> r.expiration_date,
                         created_by |-> r.username]
            expected == ("_id" :> next_oid)
                          @@ (IF Truthy(r.start_date)
                              THEN ("start_date" :> r.start_date) @@ supplied
                              ELSE supplied)
        IN  outcome.resp.status = 200 =>
              /\ Len(outcome.coll) = Len(Stored) + 1
              /\ \A i \in DOMAIN Stored : outcome.coll[i] = Stored[i]
              /\ outcome.resp.body[1]["_id"] = str(next_oid)
              /\ \A i \in DOMAIN Stored : Stored[i]["_id"] # next_oid
              /\ C7_Listed(outcome.coll, expected, C7_Supplied \cup {"created_by"})
              /\ "created_at" \in DOMAIN outcome.coll[Len(outcome.coll)]

(* C7.  A successful create adds exactly one record and changes no         *)
(* existing one; list_all by a registered user then shows a record with    *)
(* the returned identifier, created_by equal to the username, created_at   *)
(* set, and the supplied message, expiration_date and start_date (none     *)
(* when none was provided).  From then on, across every step that does not *)
(* delete the record, list_all shows the record with all these values.     *)
C7_CreatedValuesStay ==
    /\ []C7_CreateStores
    /\ [][\A i \in DOMAIN Stored :
            find_one(announcements_collection', Stored[i]["_id"]) # NoneDoc
              => C7_Listed(announcements_collection', Stored[i], C7_Supplied \cup C7_Stamps)]_vars

\* The step is a successful update of the record doc.
C7_Updates(doc) ==
    /\ resp'.op = "update" /\ resp'.status = 200
    /\ resp'.body[1]["_id"] = str(doc["_id"])

(* C7, with the update accounted for.  A successful create adds exactly    *)
(* one record and changes no existing one; across every step that does not *)
(* delete the record list_all shows it with its identifier, created_by and *)
(* created_at, and with the supplied message, expiration_date and          *)
(* start_date unless the step is a successful update of that record.       *)
C7_CreatedValuesStayUntilUpdate ==
    /\ []C7_CreateStores
    /\ [][\A i \in DOMAIN Stored :
            find_one(announcements_collection', Stored[i]["_id"]) # NoneDoc
              => /\ C7_Listed(announcements_collection', Stored[i], C7_Stamps)
                 /\ \/ C7_Listed(announcements_collection', Stored[i], C7_Supplied)
                    \/ C7_Updates(Stored[i])]_vars

\* list_all shows a record that was created and then updated.
C7_Witness ==
    /\ resp.op = "list_all" /\ resp.status = 200
    /\ Len(resp.body) = 1
    /\ "created_by" \in DOMAIN resp.body[1] /\ "updated_by" \in DOMAIN resp.body[1]

\* The key list_all sorts by.
C8_Key(doc) == IF "expiration_date" \in DOMAIN doc THEN doc["expiration_date"] ELSE <<>>

(* C8.  For a registered user list_all returns every stored record, each   *)
(* once and whatever its dates, ordered by expiration_date descending, a   *)
(* missing expiration_date counting as the empty string.                   *)
C8_ListAllSorted ==
    \A username \in Teachers :
        LET outcome == get_all_announcements(Stored, username)
            body == outcome.resp.body
        IN  /\ outcome.resp.status = 200
            /\ outcome.coll = Stored
            /\ Len(body) = Len(Stored)
            /\ \A i \in DOMAIN Stored :
                  Cardinality({j \in DOMAIN body : body[j] = WithStrId(Stored[i])}) = 1
            /\ \A j \in 1..(Len(body) - 1) : StrLeq(C8_Key(body[j + 1]), C8_Key(body[j]))

\* list_all has returned two records, the later stored one first, the last
\* of them expired.
C8_Witness ==
    /\ resp.op = "list_all" /\ resp.status = 200
    /\ Len(resp.body) = 2 /\ Len(Stored) = 2
    /\ resp.body[1] = WithStrId(Stored[2])
    /\ resp.body[1]["expiration_date"] # resp.body[2]["expiration_date"]
    /\ ~StrLeq(strftime(today), resp.body[2]["expiration_date"])

\* The string has the form dddd-dd-dd.
C9_ExactForm(s) ==
    /\ Len(s) = 10
    /\ \A i \in {1, 2, 3, 4, 6, 7, 9, 10} : IsDigit(s[i])
    /\ s[5] = "-" /\ s[8] = "-"

(* C9.  The date validation of create and update succeeds only on a        *)
(* calendar date in exact YYYY-MM-DD form, so every expiration_date and    *)
(* start_date in the store has that form.                                  *)
C9_StoredDatesExact ==
    \A i \in DOMAIN Stored :
        \A f \in {"expiration_date", "start_date"} :
            f \in DOMAIN Stored[i] => C9_ExactForm(Stored[i][f])

(* C10.  Every update ends with the updated record, Unauthorized,          *)
(* InvalidId, InvalidDate or NotFound, never with an internal error, also  *)
(* when a delete removes the record before the read-back.                  *)
C10_UpdateOutcomes ==
    resp.op = "update" =>
        /\ resp.status \in {200, 400, 401, 404}
        /\ resp.status = 200 => Len(resp.body) = 1

====
